---- MODULE Spec2Model ----
(***************************************************************************)
(* Model of pandisk/pandeia_funcs.py: the scene builders (scene_star,      *)
(* get_dot, image2scene, add_ring, add_radial_profile), the Planck         *)
(* evaluator bnu and the aggregator (scene_spectrum, normalise_scene).     *)
(*                                                                         *)
(* Numbers.  A Python/numpy float is modelled as an exact fraction <<n,d>> *)
(* in lowest terms with d > 0.  The IEEE special values numpy produces are *)
(* <<1,0>> (inf), <<-1,0>> (-inf) and <<0,0>> (nan).  Radiances are kept   *)
(* in units of k1 = 3.9728949e19 (line 18), which only ever appears as a   *)
(* common factor.  The transcendental library functions (np.exp, np.sqrt,  *)
(* np.sin, np.cos) are evaluated by fixed rational approximations, named   *)
(* below; the arithmetic around them is exact.                             *)
(*                                                                         *)
(* Objects.  Scene elements are Python dicts held by reference: heap is    *)
(* the sequence of all element objects allocated so far (an address is an  *)
(* index into it) and a scene is a sequence of addresses.                  *)
(***************************************************************************)
EXTENDS Integers, Sequences, FiniteSets, TLC

\* ------------------------------------------------------------------ floats

Abs(n) == IF n < 0 THEN -n ELSE n

Sgn(n) == IF n < 0 THEN -1 ELSE IF n = 0 THEN 0 ELSE 1

RECURSIVE GCD(_, _)
GCD(a, b) == IF b = 0 THEN a ELSE GCD(b, a % b)

RNorm(n, d) ==
    IF d = 0 THEN <<Sgn(n), 0>>
    ELSE IF n = 0 THEN <<0, 1>>
    ELSE LET g == GCD(Abs(n), Abs(d))
         IN  <<Sgn(d) * (n \div g), Abs(d) \div g>>

R(n) == <<n, 1>>

NaN == <<0, 0>>

IsNaN(a) == a[1] = 0 /\ a[2] = 0

RNeg(a) == <<-a[1], a[2]>>

RMul(a, b) ==
    IF a[2] = 0 \/ b[2] = 0 THEN <<Sgn(a[1]) * Sgn(b[1]), 0>>
    ELSE IF a[1] = 0 \/ b[1] = 0 THEN <<0, 1>>
    ELSE LET g1 == GCD(Abs(a[1]), b[2])
             g2 == GCD(Abs(b[1]), a[2])
         IN  <<(a[1] \div g1) * (b[1] \div g2), (a[2] \div g2) * (b[2] \div g1)>>

\* numpy division: x/0 is inf (nan for 0/0), with a warning, not an error
RInv(a) == IF a[1] < 0 THEN <<-a[2], -a[1]>> ELSE <<a[2], a[1]>>

RDiv(a, b) == RMul(a, RInv(b))

RAdd(a, b) ==
    IF IsNaN(a) \/ IsNaN(b) THEN NaN
    ELSE IF a[2] = 0 THEN (IF b[2] = 0 /\ b[1] # a[1] THEN NaN ELSE a)
    ELSE IF b[2] = 0 THEN b
    ELSE LET g == GCD(a[2], b[2])
         IN  RNorm(a[1] * (b[2] \div g) + b[1] * (a[2] \div g), (a[2] \div g) * b[2])

RSub(a, b) == RAdd(a, RNeg(b))

\* a < b; every comparison with nan is False
RLt(a, b) ==
    IF IsNaN(a) \/ IsNaN(b) THEN FALSE
    ELSE IF a[2] = 0 \/ b[2] = 0
         THEN (IF a[2] = 0 THEN a[1] ELSE 0) < (IF b[2] = 0 THEN b[1] ELSE 0)
    ELSE IF a[1] \div a[2] # b[1] \div b[2] THEN a[1] \div a[2] < b[1] \div b[2]
    ELSE (a[1] % a[2]) * b[2] < (b[1] % b[2]) * a[2]

RGt(a, b) == RLt(b, a)

\* bisection: lo*lo <= n < hi*hi
RECURSIVE ISqrtIn(_, _, _)
ISqrtIn(n, lo, hi) ==
    IF hi - lo <= 1 THEN lo
    ELSE LET mid == (lo + hi) \div 2
         IN  IF mid * mid <= n THEN ISqrtIn(n, mid, hi) ELSE ISqrtIn(n, lo, mid)

\* floor of the square root of a natural number below 2^31
ISqrt(n) == ISqrtIn(n, 0, 46341)

\* np.sqrt, to two decimal places (sqrt(0) = 0, sqrt(inf) = inf)
npsqrt(a) ==
    IF a[2] = 0 THEN a
    ELSE RNorm(ISqrt((a[1] * 10000) \div a[2]), 100)

\* np.exp: the argument to three binary places, the series 1 + x + x^2/2
npexp(a) ==
    LET q == RNorm((a[1] \div a[2]) * 8 + ((a[1] % a[2]) * 8) \div a[2], 8)
    IN  RAdd(RAdd(R(1), q), RDiv(RMul(q, q), R(2)))

\* np.sin(np.deg2rad(a)) for a in degrees: Bhaskara's rational approximation
\* 4x(180-x)/(40500 - x(180-x)) on [0,180], odd and 360-periodic elsewhere
RECURSIVE sindeg(_)
sindeg(a) ==
    IF RLt(a, R(0)) THEN RNeg(sindeg(RNeg(a)))
    ELSE IF RGt(a, R(360)) THEN sindeg(RSub(a, R(360)))
    ELSE IF RGt(a, R(180)) THEN RNeg(sindeg(RSub(a, R(180))))
    ELSE LET p == RMul(a, RSub(R(180), a))
         IN  RDiv(RMul(R(4), p), RSub(R(40500), p))

\* np.cos(np.deg2rad(a))
cosdeg(a) == sindeg(RAdd(a, R(90)))

\* --------------------------------------------------------- python values

Float(q) == [kind |-> "float", v |-> q]

NDArray(s) == [kind |-> "ndarray", v |-> s]

Raise(e) == [kind |-> "raise", v |-> e]

None == [kind |-> "None"]

\* dict item assignment d[k] = x, and del d[k] (the caller checks k in d)
Put(d, k, x) == [f \in DOMAIN d \cup {k} |-> IF f = k THEN x ELSE d[f]]

Del(d, k) == [f \in DOMAIN d \ {k} |-> d[f]]

Put2(d, k, l, x) == Put(d, k, Put(d[k], l, x))

Put3(d, k, l, m, x) == Put(d, k, Put2(d[k], l, m, x))

\* ------------------------------------------------------------------ state

VARIABLES
    scene,   \* the caller's scene: a list of addresses into heap
    heap,    \* the element dicts allocated so far
    call,    \* the last call: its name, arguments and outcome
    old      \* scene and heap as they were when the last call was made

vars == <<scene, heap, call, old>>

\* cfg.tiny: pandeia_funcs.py neither imports nor defines the name cfg, so
\* evaluating it raises NameError
cfg_tiny == Raise("NameError")

\* ------------------------------------------------------------------- bnu

k2 == <<1438769, 100>>

\* k1/(wav_um**3), in units of k1
fact1(w) == RInv(RMul(w, RMul(w, w)))

fact2(w, t) == RDiv(k2, RMul(w, t))

\* fact1/(np.exp(fact2)-1.0)
planck(w, t) == RDiv(fact1(w), RSub(npexp(fact2(w, t)), R(1)))

\* the scalar branch's guard (line 39)
bnu_scalar_overflow(w, t) == RGt(fact2(w, t), R(709))

\* the array branches' mask ofl (lines 23 and 31)
bnu_ofl(w, t) == RLt(fact2(w, t), R(709))

\* element k of an operand under broadcasting
At(x, k) == IF x.kind = "ndarray" THEN x.v[k] ELSE x.v

bnu(wav_um, temp) ==
    IF wav_um.kind = "ndarray" \/ temp.kind = "ndarray"
    THEN IF wav_um.kind = "ndarray" /\ temp.kind = "ndarray"
              /\ Len(wav_um.v) # Len(temp.v)
         THEN Raise("ValueError")
         ELSE IF cfg_tiny.kind = "raise" THEN cfg_tiny
         ELSE LET n == IF wav_um.kind = "ndarray" THEN Len(wav_um.v) ELSE Len(temp.v)
              IN  NDArray([k \in 1..n |->
                     IF bnu_ofl(At(wav_um, k), At(temp, k))
                     THEN planck(At(wav_um, k), At(temp, k))
                     ELSE cfg_tiny.v])
    ELSE IF bnu_scalar_overflow(wav_um.v, temp.v)
         THEN cfg_tiny
         ELSE Float(planck(wav_um.v, temp.v))

\* ----------------------------------------------------------- constructors

scene_star(sptype, mag, id, band, name) ==
    [id |-> id,
     position |-> [orientation |-> R(0), x_offset |-> R(0), y_offset |-> R(0)],
     shape |-> [geometry |-> "point"],
     spectrum |-> [lines |-> <<>>,
                   name |-> name,
                   normalization |-> [bandpass |-> band,
                                      norm_flux |-> mag,
                                      norm_fluxunit |-> "vegamag",
                                      type |-> "photsys"],
                   redshift |-> R(0),
                   sed |-> [key |-> sptype, sed_type |-> "phoenix"]]]

get_dot(id, x, y, name, norm_wave, norm_flux, temp, size) ==
    [id |-> id,
     position |-> [orientation |-> R(0), x_offset |-> x, y_offset |-> y],
     shape |-> [geometry |-> "flat", major |-> size, minor |-> size,
                orientation |-> R(0)],
     spectrum |-> [lines |-> <<>>,
                   name |-> name,
                   normalization |-> [type |-> "at_lambda",
                                      norm_wave |-> norm_wave,
                                      norm_flux |-> norm_flux,
                                      norm_waveunit |-> "micron",
                                      norm_fluxunit |-> "mjy"],
                   redshift |-> R(0),
                   sed |-> [sed_type |-> "blackbody", temp |-> temp]]]

\* -------------------------------------------------------------- add_ring

PyInt(n) == [kind |-> "int", v |-> n]

\* the outcome of a call: the caller's list, the heap, and what the call
\* returned or raised
Out(sc, hp, res) == [scene |-> sc, heap |-> hp, res |-> res]

Returned(sc) == [kind |-> "scene", v |-> sc]

\* int(2*np.pi*r / dr), with pi = 355/113
default_npt(r, dr) ==
    LET q == RDiv(RMul(R(710), r), RMul(R(113), dr))
    IN  q[1] \div q[2]

\* lines 221-246 on the copy of scene[0], once bandpass is known to be there
ring_disk(first, dr, temp, norm_wave, inc, pa) ==
    LET d1 == Put2(first, "position", "orientation", R(0))
        d2 == IF "key" \in DOMAIN d1.spectrum.sed
              THEN Put2(d1, "spectrum", "sed", Del(d1.spectrum.sed, "key"))
              ELSE d1
        d3 == Put(d2, "shape",
                  Put(Put(Put(Put(d2.shape, "geometry", "flat"),
                                  "major", dr),
                              "minor", RMul(dr, cosdeg(inc))),
                      "orientation", RAdd(R(90), pa)))
        n1 == Del(d3.spectrum.normalization, "bandpass")
        n2 == Put(Put(Put(Put(n1, "type", "at_lambda"),
                              "norm_wave", norm_wave),
                          "norm_waveunit", "micron"),
                  "norm_fluxunit", "mjy")
        s1 == Put(Put(Put(Put(Put(d3.spectrum.sed, "sed_type", "blackbody"),
                                  "temp", temp),
                              "wmin", <<1, 2>>),
                          "wmax", R(30)),
                  "sampling", R(200))
    IN  Put(d3, "spectrum",
            Put(Put(Put(Put(Put(d3.spectrum, "redshift", R(0)),
                                "lines", <<>>),
                            "name", "disk chunk"),
                        "normalization", n2),
                "sed", s1))

\* ids continuing from len(scene) instead of len(scene)+1
ring_id_from_len(i, i0) == i + i0

\* d['id'] = i + i0+1
ring_id(i, i0) == i + i0 + 1

\* flux / float(len(angs))
ring_norm_flux(flux, n) == RDiv(flux, R(n))

\* the i-th chunk (i from 0) of n, lines 257-261
ring_chunk(disk, i, i0, n, r, flux, inc) ==
    LET a  == RNorm(360 * i, n)
        d1 == Put(disk, "id", ring_id(i, i0))
        d2 == Put3(d1, "spectrum", "normalization", "norm_flux",
                   ring_norm_flux(flux, n))
        d3 == Put2(d2, "position", "x_offset",
                   RMul(RMul(r, sindeg(a)), cosdeg(inc)))
    IN  Put2(d3, "position", "y_offset", RMul(r, cosdeg(a)))

add_ring(sc, hp, r, dr, flux, temp, norm_wave, inc, pa, npt) ==
    IF Len(sc) = 0 THEN Out(sc, hp, Raise("IndexError"))
    ELSE IF "bandpass" \notin DOMAIN hp[sc[1]].spectrum.normalization
    THEN Out(sc, hp, Raise("KeyError"))
    ELSE LET disk == ring_disk(hp[sc[1]], dr, temp, norm_wave, inc, pa)
             i0   == Len(sc)
             n    == IF npt.kind = "None" THEN default_npt(r, dr) ELSE npt.v
             new  == [i \in 1..n |-> ring_chunk(disk, i - 1, i0, n, r, flux, inc)]
             sc2  == sc \o [i \in 1..n |-> Len(hp) + i]
         IN  Out(sc2, hp \o new, Returned(sc2))

\* ---------------------------------------------------- add_radial_profile

\* the loop of lines 295-297 from its i-th round (i from 1) on
RECURSIVE profile_loop(_, _, _, _, _, _, _, _, _, _, _)
profile_loop(i, sc, hp, rad, dr, flux, temp, norm_wave, inc, pa, npt) ==
    IF i > Len(rad) THEN Out(sc, hp, Returned(sc))
    ELSE IF i > Len(dr) \/ i > Len(flux) \/ i > Len(temp)
    THEN Out(sc, hp, Raise("IndexError"))
    ELSE LET o == add_ring(sc, hp, rad[i], dr[i], flux[i], temp[i], norm_wave,
                           inc, pa, npt)
         IN  IF o.res.kind = "raise" THEN o
             ELSE profile_loop(i + 1, o.scene, o.heap, rad, dr, flux, temp,
                               norm_wave, inc, pa, npt)

add_radial_profile(sc, hp, rad, dr, flux, temp, norm_wave, inc, pa, npt) ==
    profile_loop(1, sc, hp, rad, dr, flux, temp, norm_wave, inc, pa, npt)

\* ------------------------------------------------------------ image2scene

Shape(img) == <<Len(img), Len(img[1])>>

\* a.reshape(sh).mean(-1).mean(1): the mean of each block of the image
rebin_mean(a, shape) ==
    LET bh == Len(a) \div shape[1]
        bw == Len(a[1]) \div shape[2]
        cells(p, q) == {<<p * bh + u, q * bw + v>> : u \in 1..bh, v \in 1..bw}
        RECURSIVE Sum(_)
        Sum(S) == IF S = {} THEN R(0)
                  ELSE LET c == CHOOSE c \in S : TRUE
                       IN  RAdd(a[c[1]][c[2]], Sum(S \ {c}))
    IN  [p \in 1..shape[1] |-> [q \in 1..shape[2] |->
            RDiv(Sum(cells(p - 1, q - 1)), R(bh * bw))]]

\* _rebin(a, shape); reshape refuses a shape of another size
rebin_image(a, shape) ==
    IF shape[1] * (Len(a) \div shape[1]) * shape[2] * (Len(a[1]) \div shape[2])
           # Len(a) * Len(a[1])
    THEN Raise("ValueError")
    ELSE [kind |-> "image", v |-> rebin_mean(a, shape)]

RECURSIVE SeqMax(_, _)
SeqMax(s, m) ==
    IF s = <<>> THEN m
    ELSE SeqMax(Tail(s), IF RGt(Head(s), m) THEN Head(s) ELSE m)

\* np.max(img)
image_max(img) ==
    LET rowmax == [j \in 1..Len(img) |-> SeqMax(Tail(img[j]), Head(img[j]))]
    IN  SeqMax(Tail(rowmax), Head(rowmax))

\* x[j,i] and y[j,i] (i, j from 0), lines 168-170
grid_x(img, i, aspp) ==
    RSub(RMul(R(i), aspp), RMul(RNorm(Shape(img)[2] - 1, 2), aspp))

grid_y(img, j, aspp) ==
    RSub(RMul(R(j), aspp), RMul(RNorm(Shape(img)[1] - 1, 2), aspp))

\* r[j,i]
grid_r(img, j, i, aspp) ==
    LET x == grid_x(img, i, aspp)
        y == grid_y(img, j, aspp)
    IN  npsqrt(RAdd(RMul(x, x), RMul(y, y)))

\* temp = lambda x: 278.3 * lstar**0.25 / np.sqrt(x)
image_temp(lstar, x) ==
    RDiv(RMul(<<2783, 10>>, npsqrt(npsqrt(lstar))), npsqrt(x))

\* ni before the loop, lines 174-177
RECURSIVE MaxId(_, _, _)
MaxId(sc, hp, m) ==
    IF sc = <<>> THEN m
    ELSE MaxId(Tail(sc), hp, IF hp[Head(sc)].id > m THEN hp[Head(sc)].id ELSE m)

image_first_id(sc, hp) ==
    IF Len(sc) > 0 THEN MaxId(Tail(sc), hp, hp[Head(sc)].id) ELSE 1

\* the test of line 180 on pixel img[j,i] (i, j from 0)
image_keep(img, j, i, drange) ==
    RGt(img[j + 1][i + 1], RDiv(image_max(img), drange))

\* the pixel loops of lines 178-185, flattened: round k (from 0) has
\* i = k div shape[1], j = k mod shape[1]; img[j,i] is out of range when
\* j is no row or i no column
RECURSIVE image_loop(_, _, _, _, _, _, _, _, _)
image_loop(k, sc, hp, ni, img, wave, aspp, lstar, drange) ==
    LET h == Shape(img)[1]
        w == Shape(img)[2]
        i == k \div w
        j == k % w
    IN  IF k >= h * w THEN Out(sc, hp, Returned(sc))
        ELSE IF j >= h \/ i >= w THEN Out(sc, hp, Raise("IndexError"))
        ELSE IF image_keep(img, j, i, drange)
        THEN LET s == get_dot(ni, grid_x(img, i, aspp), grid_y(img, j, aspp),
                              "dot", wave, img[j + 1][i + 1],
                              image_temp(lstar, grid_r(img, j, i, aspp)), aspp)
             IN  image_loop(k + 1, Append(sc, Len(hp) + 1), Append(hp, s), ni + 1,
                            img, wave, aspp, lstar, drange)
        ELSE image_loop(k + 1, sc, hp, ni, img, wave, aspp, lstar, drange)

image2scene(sc, hp, img0, wave, aspp, lstar, rebin, drange) ==
    LET rb == IF rebin.kind = "None" THEN [kind |-> "image", v |-> img0]
              ELSE rebin_image(img0, rebin.v)
    IN  IF rb.kind = "raise" THEN Out(sc, hp, rb)
        ELSE IF Shape(rb.v)[2] < 2 THEN Out(sc, hp, Raise("IndexError"))
        ELSE image_loop(0, sc, hp, image_first_id(sc, hp), rb.v, wave, aspp,
                        lstar, drange)

\* --------------------------------------------------------- scene_spectrum

\* np.linspace(5,30,100)
default_wave == NDArray([k \in 1..100 |-> RAdd(R(5), RNorm(25 * (k - 1), 99))])

\* scene[first_id:], as positions of the list (from 1)
Slice(sc, first_id) == IF first_id >= Len(sc) THEN {} ELSE (first_id + 1)..Len(sc)

\* f *= x and flux += f, on floats and arrays
Scale(f, x) ==
    IF f.kind = "ndarray" THEN NDArray([k \in 1..Len(f.v) |-> RMul(f.v[k], x)])
    ELSE Float(RMul(f.v, x))

Plus(flux, f) ==
    IF f.kind = "ndarray" THEN NDArray([k \in 1..Len(f.v) |-> RAdd(flux.v[k], f.v[k])])
    ELSE Float(RAdd(flux.v, f.v))

\* one element's contribution, lines 325-328
contribution(s, wave) ==
    IF "temp" \notin DOMAIN s.spectrum.sed THEN Raise("KeyError")
    ELSE LET temp == Float(s.spectrum.sed.temp)
             f    == bnu(wave, temp)
             b    == bnu(Float(s.spectrum.normalization.norm_wave), temp)
         IN  IF f.kind = "raise" THEN f
             ELSE IF b.kind = "raise" THEN b
             ELSE Scale(f, RDiv(s.spectrum.normalization.norm_flux, b.v))

\* the loop of lines 324-329 from position p of the list on
RECURSIVE spectrum_loop(_, _, _, _, _)
spectrum_loop(p, sc, hp, wave, flux) ==
    IF p > Len(sc) THEN flux
    ELSE LET f == contribution(hp[sc[p]], wave)
         IN  IF f.kind = "raise" THEN f
             ELSE spectrum_loop(p + 1, sc, hp, wave, Plus(flux, f))

\* the flux scene_spectrum returns (its wave is the argument, or the default
\* grid), or what it raises
scene_spectrum(sc, hp, first_id, wave0) ==
    LET wave == IF wave0.kind = "None" THEN default_wave ELSE wave0
        zero == IF wave.kind = "ndarray"
                THEN NDArray([k \in 1..Len(wave.v) |-> R(0)])
                ELSE Float(R(0))
    IN  spectrum_loop(first_id + 1, sc, hp, wave, zero)

\* -------------------------------------------------------- normalise_scene

\* a shallow copy in its place: a new list of the same dicts
shallow_copy_scene(sc, hp) == [scene |-> sc, heap |-> hp]

\* s = copy.deepcopy(scene): fresh dicts, at fresh addresses
deepcopy_scene(sc, hp) ==
    [scene |-> [i \in 1..Len(sc) |-> Len(hp) + i],
     heap  |-> hp \o [i \in 1..Len(sc) |-> hp[sc[i]]]]

\* the stop of range(first_id, len(scene[first_id:])+1)
norm_range_stop(sc, first_id) == Cardinality(Slice(sc, first_id)) + 1

\* the loop of lines 357-358 from index i (from 0) on
RECURSIVE norm_loop(_, _, _, _, _)
norm_loop(i, stop, s, hp, norm) ==
    IF i >= stop THEN Out(s, hp, Returned(s))
    ELSE IF i >= Len(s) THEN Out(s, hp, Raise("IndexError"))
    ELSE LET e == hp[s[i + 1]]
             m == Put3(e, "spectrum", "normalization", "norm_flux",
                       RMul(e.spectrum.normalization.norm_flux, norm))
         IN  norm_loop(i + 1, stop, s, [hp EXCEPT ![s[i + 1]] = m], norm)

\* Out.scene is the copy s; the caller's list is not an output
normalise_scene(sc, hp, norm_flux, norm_wave0, first_id) ==
    LET c == deepcopy_scene(sc, hp)
        s == c.scene
    IN  IF norm_wave0.kind = "None" /\ first_id >= Len(s)
        THEN Out(s, c.heap, Raise("IndexError"))
        ELSE IF norm_wave0.kind = "None"
                /\ "norm_wave" \notin DOMAIN c.heap[s[first_id + 1]].spectrum.normalization
        THEN Out(s, c.heap, Raise("KeyError"))
        ELSE LET norm_wave == IF norm_wave0.kind = "None"
                              THEN Float(c.heap[s[first_id + 1]].spectrum.normalization.norm_wave)
                              ELSE norm_wave0
                 tot == scene_spectrum(s, c.heap, first_id, norm_wave)
             IN  IF tot.kind = "raise" THEN Out(s, c.heap, tot)
                 ELSE IF Slice(s, first_id) = {}
                 THEN Out(s, c.heap, Raise("ZeroDivisionError"))
                 ELSE norm_loop(first_id, norm_range_stop(sc, first_id), s, c.heap,
                                RDiv(norm_flux, tot.v))

\* ------------------------------------------------------------ the program

MaxScene == 5

MaxNpt == 2

\* the objects the caller still holds: the result of the previous call is
\* dropped when the next call is made
Live == SubSeq(heap, 1, Len(scene))

Snapshot == [scene |-> scene, heap |-> Live]

Star == scene_star("a0v", R(5), 1, "johnson,v", "generic source")

\* a scene is started empty, or with one star
InitScene ==
    \/ scene = <<>> /\ heap = <<>>
    \/ scene = <<1>> /\ heap = <<Star>>

NoCall ==
    /\ call = [op |-> "none"]
    /\ old = [scene |-> scene, heap |-> heap]

RingArgs ==
    { [r |-> R(1), dr |-> R(2), flux |-> R(7), temp |-> R(100),
       norm_wave |-> R(10), inc |-> R(60), pa |-> R(30)] }

NptArgs == {None} \cup {PyInt(n) : n \in 0..MaxNpt}

AddRing ==
    \E a \in RingArgs, npt \in NptArgs :
        LET o == add_ring(scene, Live, a.r, a.dr, a.flux, a.temp, a.norm_wave,
                          a.inc, a.pa, npt)
        IN  /\ Len(o.scene) <= MaxScene
            /\ scene' = o.scene
            /\ heap' = o.heap
            /\ call' = [op |-> "add_ring", args |-> a, npt |-> npt, res |-> o.res]
            /\ old' = Snapshot

\* the lengths of rad, dr, flux and temp: equal, or one of them shorter or
\* longer than the others
ProfileLengths ==
    { <<1, 1, 1, 1>>, <<2, 2, 2, 2>>,
      <<1, 2, 2, 2>>, <<2, 1, 2, 2>>, <<2, 2, 1, 2>>, <<2, 2, 2, 1>>,
      <<2, 1, 1, 1>>, <<1, 2, 1, 1>>, <<1, 1, 2, 1>>, <<1, 1, 1, 2>> }

ProfileArgs ==
    { [rad |-> SubSeq(<<R(1), R(2)>>, 1, l[1]),
       dr |-> SubSeq(<<R(2), R(2)>>, 1, l[2]),
       flux |-> SubSeq(<<R(10), R(7)>>, 1, l[3]),
       temp |-> SubSeq(<<R(100), R(50)>>, 1, l[4]),
       norm_wave |-> R(20), inc |-> R(0), pa |-> R(0)]
      : l \in ProfileLengths }

AddRadialProfile ==
    \E a \in ProfileArgs, npt \in {PyInt(1)} :
        LET o == add_radial_profile(scene, Live, a.rad, a.dr, a.flux, a.temp,
                                    a.norm_wave, a.inc, a.pa, npt)
        IN  /\ Len(o.scene) <= MaxScene
            /\ scene' = o.scene
            /\ heap' = o.heap
            /\ call' = [op |-> "add_radial_profile", args |-> a, npt |-> npt,
                        res |-> o.res]
            /\ old' = Snapshot

\* the image of a shape: pixel (j,i) holds 1 + its row-major index
Image(sh) == [j \in 1..sh[1] |-> [i \in 1..sh[2] |-> R(1 + (j - 1) * sh[2] + (i - 1))]]

Rebin(sh) == [kind |-> "tuple", v |-> sh]

\* shape, rebin and drange of the images converted
ImageArgs ==
    { <<<<1, 1>>, None, R(1000)>>,
      <<<<2, 2>>, None, R(1000)>>,
      <<<<2, 2>>, None, R(2)>>,
      <<<<2, 3>>, None, R(1000)>>,
      <<<<3, 2>>, None, R(1000)>>,
      <<<<3, 3>>, None, R(2)>>,
      <<<<3, 3>>, Rebin(<<2, 2>>), R(1000)>>,
      <<<<4, 4>>, Rebin(<<2, 2>>), R(1000)>> }

Image2Scene ==
    \E a \in ImageArgs :
        LET o == image2scene(scene, Live, Image(a[1]), R(10), R(1), R(1), a[2], a[3])
        IN  /\ Len(o.scene) <= MaxScene
            /\ scene' = o.scene
            /\ heap' = o.heap
            /\ call' = [op |-> "image2scene", img |-> Image(a[1]), wave |-> R(10),
                        aspp |-> R(1), lstar |-> R(1), rebin |-> a[2],
                        drange |-> a[3], res |-> o.res]
            /\ old' = Snapshot

\* the builders, threading one scene
Init == InitScene /\ NoCall

Next ==
    \/ AddRing
    \/ AddRadialProfile
    \/ Image2Scene

Spec == Init /\ [][Next]_vars

\* -------------------------------------------------- the aggregator's calls

WaveArgs == {None, Float(R(10)), Float(R(20)), NDArray(<<R(10), R(20)>>)}

SceneSpectrum ==
    \E first_id \in 0..Len(scene), wave \in WaveArgs :
        /\ call' = [op |-> "scene_spectrum", first_id |-> first_id, wave |-> wave,
                    res |-> scene_spectrum(scene, Live, first_id, wave)]
        /\ heap' = Live
        /\ old' = Snapshot
        /\ UNCHANGED scene

NormaliseScene ==
    \E norm_flux \in {R(1), R(3)}, norm_wave \in {None, Float(R(10)), Float(R(20))},
       first_id \in 0..Len(scene) :
        LET o == normalise_scene(scene, Live, norm_flux, norm_wave, first_id)
        IN  /\ call' = [op |-> "normalise_scene", norm_flux |-> norm_flux,
                        norm_wave |-> norm_wave, first_id |-> first_id,
                        res |-> o.res]
            /\ heap' = o.heap
            /\ old' = Snapshot
            /\ UNCHANGED scene

\* the scenes the aggregator is called on: what one builder call makes of an
\* empty scene or of a star
BuiltScenes ==
    LET starts == {Out(<<>>, <<>>, None), Out(<<1>>, <<Star>>, None)}
    IN  starts
        \cup { add_ring(b.scene, b.heap, a.r, a.dr, a.flux, a.temp, a.norm_wave,
                        a.inc, a.pa, npt)
               : b \in starts, a \in RingArgs, npt \in NptArgs }
        \cup { image2scene(b.scene, b.heap, Image(a[1]), R(10), R(1), R(1), a[2], a[3])
               : b \in starts, a \in ImageArgs }

InitAgg ==
    /\ \E b \in BuiltScenes :
          /\ Len(b.scene) <= MaxScene
          /\ scene = b.scene
          /\ heap = b.heap
    /\ NoCall

NextAgg ==
    \/ SceneSpectrum
    \/ NormaliseScene

SpecAgg == InitAgg /\ [][NextAgg]_vars

\* ---------------------------------------------------------- calls of bnu

BnuWaves == {R(1), R(2), R(5), R(10), R(20), R(100)}

\* the exponent argument is exactly 709 at wav_um * temp = k2/709
BnuTemps ==
    {<<1438769, 70900>>, <<1438769, 141800>>, R(10), R(20), R(100), R(1000)}

BnuArgs ==
    {<<Float(w), Float(t)>> : w \in BnuWaves, t \in BnuTemps}
    \cup {<<NDArray(<<w, R(30)>>), Float(t)>> : w \in BnuWaves, t \in BnuTemps}
    \cup {<<Float(w), NDArray(<<t, R(2000)>>)>> : w \in BnuWaves, t \in BnuTemps}

Bnu ==
    \E a \in BnuArgs :
        /\ call' = [op |-> "bnu", wav_um |-> a[1], temp |-> a[2],
                    res |-> bnu(a[1], a[2])]
        /\ heap' = Live
        /\ old' = Snapshot
        /\ UNCHANGED scene

InitBnu == scene = <<>> /\ heap = <<>> /\ NoCall

NextBnu == Bnu

SpecBnu == InitBnu /\ [][NextBnu]_vars

\* ------------------------------------------------------------ properties

Elem(i) == heap[scene[i]]

OldElem(i) == old.heap[old.scene[i]]

NumNew == Len(scene) - Len(old.scene)

\* the k-th element the last call appended
New(k) == heap[scene[Len(old.scene) + k]]

\* the caller's scene still starts with the elements it had, unchanged
PrefixKept ==
    /\ Len(scene) >= Len(old.scene)
    /\ \A i \in 1..Len(old.scene) : scene[i] = old.scene[i] /\ Elem(i) = OldElem(i)

IsStar(e) ==
    /\ e.shape.geometry = "point"
    /\ e.spectrum.normalization.type = "photsys"

IsFlatBlackbody(e) ==
    /\ e.shape.geometry = "flat"
    /\ e.spectrum.normalization.type = "at_lambda"
    /\ e.spectrum.sed.sed_type = "blackbody"
    /\ "temp" \in DOMAIN e.spectrum.sed

NormFlux(e) == e.spectrum.normalization.norm_flux

RECURSIVE SumNewFlux(_)
SumNewFlux(k) == IF k = 0 THEN R(0) ELSE RAdd(SumNewFlux(k - 1), NormFlux(New(k)))

RECURSIVE OldMaxId(_)
OldMaxId(i) ==
    IF i = 0 THEN 0
    ELSE IF OldElem(i).id > OldMaxId(i - 1) THEN OldElem(i).id ELSE OldMaxId(i - 1)

\* C1: in a scene grown from empty or from one star with id 1 by add_ring,
\* add_radial_profile and image2scene calls, no two elements share an id.
C1_IdsUnique ==
    \A i, j \in 1..Len(scene) : i # j => Elem(i).id # Elem(j).id

\* C7: the ids image2scene gives the elements it appends start one past the
\* largest id already in the scene (at 1 for an empty scene) and go up by one.
C7_ImageIdsFollowMax ==
    call.op = "image2scene" =>
        \A k \in 1..NumNew : New(k).id = OldMaxId(Len(old.scene)) + k

\* the pixels (row j, column i, from 1) of an image brighter than max/drange
Bright(img, drange) ==
    { p \in (1..Len(img)) \X (1..Len(img[1])) :
        RGt(img[p[1]][p[2]], RDiv(image_max(img), drange)) }

\* C6: for an image of any shape, image2scene appends exactly one element per
\* pixel brighter than max(image)/dynamic_range, with that pixel's brightness
\* as norm_flux and its grid coordinate as position, and nothing else.  (Stated
\* for the images that are converted as given and have two rows and two
\* columns at least.)
C6_OneElementPerBrightPixel ==
    (/\ call.op = "image2scene"
     /\ call.rebin.kind = "None"
     /\ Len(call.img) >= 2
     /\ Len(call.img[1]) >= 2) =>
        /\ call.res.kind = "scene"
        /\ NumNew = Cardinality(Bright(call.img, call.drange))
        /\ \A p \in Bright(call.img, call.drange) :
              \E k \in 1..NumNew :
                  /\ NormFlux(New(k)) = call.img[p[1]][p[2]]
                  /\ New(k).position.x_offset = grid_x(call.img, p[2] - 1, call.aspp)
                  /\ New(k).position.y_offset = grid_y(call.img, p[1] - 1, call.aspp)

\* C5: on a scene whose first element is a star, add_ring with npt >= 1 returns
\* the scene with exactly npt flat blackbody elements appended, their ids
\* len(scene)+1 .. len(scene)+npt in order, each with norm_flux = flux/npt, the
\* norm_flux of the new elements summing to flux, and the old elements unchanged.
C5_AddRingAppends ==
    (/\ call.op = "add_ring"
     /\ Len(old.scene) >= 1
     /\ call.npt.kind = "int"
     /\ call.npt.v >= 1
     /\ IsStar(OldElem(1))) =>
        /\ call.res.kind = "scene"
        /\ call.res.v = scene
        /\ NumNew = call.npt.v
        /\ PrefixKept
        /\ \A k \in 1..NumNew :
              /\ IsFlatBlackbody(New(k))
              /\ New(k).id = Len(old.scene) + k
              /\ NormFlux(New(k)) = RDiv(call.args.flux, R(call.npt.v))
        /\ SumNewFlux(NumNew) = call.args.flux

\* a ring of two chunks or more has been added to a star and other elements
C5_Witness ==
    /\ call.op = "add_ring"
    /\ call.npt.kind = "int"
    /\ call.npt.v >= 2
    /\ call.res.kind = "scene"
    /\ Len(old.scene) >= 2
    /\ IsStar(OldElem(1))
    /\ NumNew = call.npt.v

\* C10: add_ring returns normally on any non-empty scene, whatever built it,
\* and appends its ring elements.
C10_AddRingOnAnyScene ==
    (call.op = "add_ring" /\ Len(old.scene) >= 1) =>
        /\ call.res.kind = "scene"
        /\ call.npt.kind = "int" => NumNew = call.npt.v

\* C8: add_radial_profile raises when rad, dr, flux and temp do not all have
\* the same length, whichever of them is the shorter or the longer one.
C8_MismatchedLengthsRaise ==
    (/\ call.op = "add_radial_profile"
     /\ \/ Len(call.args.rad) # Len(call.args.dr)
        \/ Len(call.args.rad) # Len(call.args.flux)
        \/ Len(call.args.rad) # Len(call.args.temp)) =>
        call.res.kind = "raise"

\* the numerically negligible constant bnu is to return on overflow
negligible == <<1, 1000000000>>

\* the exponent argument k2/(wav_um*temp) is at or above the threshold
AtOrAbove709(w, t) == ~RLt(RDiv(k2, RMul(w, t)), R(709))

\* C9: whenever the exponent argument is at or above 709, exactly 709
\* included, bnu returns the negligible constant there, in the scalar branch
\* and in both array branches alike.
C9_OverflowGivesNegligible ==
    call.op = "bnu" =>
        IF call.wav_um.kind = "float" /\ call.temp.kind = "float"
        THEN AtOrAbove709(call.wav_um.v, call.temp.v) =>
                 call.res = Float(negligible)
        ELSE LET n == IF call.wav_um.kind = "ndarray" THEN Len(call.wav_um.v)
                      ELSE Len(call.temp.v)
             IN  \A k \in 1..n :
                     AtOrAbove709(At(call.wav_um, k), At(call.temp, k)) =>
                         /\ call.res.kind = "ndarray"
                         /\ call.res.v[k] = negligible

AllBlackbody(sc, hp) ==
    \A i \in 1..Len(sc) : "temp" \in DOMAIN hp[sc[i]].spectrum.sed

\* the wavelength a normalise_scene call normalises at
CallNormWave ==
    IF call.norm_wave.kind = "None"
    THEN Float(OldElem(call.first_id + 1).spectrum.normalization.norm_wave)
    ELSE call.norm_wave

\* target flux over the total of elements first_id.. of the scene passed in
CallRatio ==
    RDiv(call.norm_flux,
         scene_spectrum(old.scene, old.heap, call.first_id, CallNormWave).v)

\* C2: on a scene of n >= 1 blackbody elements and first_id in 0..n-1,
\* normalise_scene returns a scene in which exactly the elements at indices
\* first_id..n-1 have their norm_flux multiplied by the ratio, once, and the
\* elements below first_id keep theirs.
C2_RescalesExactlyTheSummed ==
    (/\ call.op = "normalise_scene"
     /\ Len(old.scene) >= 1
     /\ AllBlackbody(old.scene, old.heap)
     /\ call.first_id < Len(old.scene)) =>
        /\ call.res.kind = "scene"
        /\ Len(call.res.v) = Len(old.scene)
        /\ \A i \in 1..Len(old.scene) :
              NormFlux(heap[call.res.v[i]]) =
                  IF i > call.first_id
                  THEN RMul(NormFlux(OldElem(i)), CallRatio)
                  ELSE NormFlux(OldElem(i))

\* C3: for a scene of one or more blackbody elements,
\* normalise_scene(scene, target_flux, norm_wave=L0) returns a scene whose
\* scene_spectrum at wave=L0 is target_flux.
C3_NormalisedTotalIsTarget ==
    (/\ call.op = "normalise_scene"
     /\ Len(old.scene) >= 1
     /\ AllBlackbody(old.scene, old.heap)
     /\ call.norm_wave.kind = "float"
     /\ call.first_id = 0) =>
        /\ call.res.kind = "scene"
        /\ scene_spectrum(call.res.v, heap, 0, call.norm_wave) = Float(call.norm_flux)

\* C4: normalise_scene leaves the scene it is given as it was, whether it
\* returns or raises, and the scene it returns shares no element with it.
C4_InputUntouched ==
    call.op = "normalise_scene" =>
        /\ scene = old.scene
        /\ \A i \in 1..Len(scene) : Elem(i) = OldElem(i)
        /\ call.res.kind = "scene" =>
              {call.res.v[i] : i \in 1..Len(call.res.v)}
                  \cap {scene[i] : i \in 1..Len(scene)} = {}

\* normalise_scene has returned a scene in which a norm_flux differs from the
\* one in the scene passed in
C4_Witness ==
    /\ call.op = "normalise_scene"
    /\ call.res.kind = "scene"
    /\ Len(call.res.v) = Len(scene)
    /\ \E i \in 1..Len(scene) : NormFlux(heap[call.res.v[i]]) # NormFlux(Elem(i))

====
